---- MODULE Spec2Model ----
(***************************************************************************)
(* Model of the star-history crawler: the page planner, the rate-limited   *)
(* fetcher, and the sampler that reconstructs a dated series of star       *)
(* counts (src/src/crawler.rs, src/src/github.rs, src/src/date.rs).        *)
(***************************************************************************)
EXTENDS Integers, Sequences, FiniteSets, TLC

VARIABLES
    pc,                 \* position of Crawler::stars / of the routine under study
    max_request_count,  \* Crawler.max_request_count
    first_response,     \* outcome of the page-less first stargazers call
    page_count,         \* result of get_page_count
    request_pages,      \* result of get_request_pages
    responses,          \* join_all's output vector, filled as fetches complete
    served,             \* what the server answered for each page whose fetch is complete
    stars,              \* parse_all_star_responses: the concatenated entries
    index,              \* parse_all_star_responses: the walk index
    star_records,       \* the series being built
    result,             \* "none" while running, then "ok" or "err"
    count_reply,        \* network log: the aggregate endpoint's answer
    star_count_calls,   \* number of calls of the aggregate endpoint
    overtaken,          \* history: some fetch completed before one planned earlier
    f_pc,               \* position of Github::handle_rate_limit
    f_response,         \* handle_rate_limit: the current response
    f_requests,         \* requests executed so far (each a copy of the request)
    f_clock,            \* OffsetDateTime::now_utc(), epoch seconds
    f_wait,             \* handle_rate_limit: the duration handed to sleep
    f_waits             \* durations slept so far

vars == <<pc, max_request_count, first_response, page_count, request_pages,
          responses, served, stars, index, star_records, result, count_reply,
          star_count_calls, overtaken, f_pc, f_response, f_requests, f_clock,
          f_wait, f_waits>>

samplerVars == <<pc, max_request_count, first_response, page_count,
                 request_pages, responses, served, stars, index, star_records,
                 result, count_reply, star_count_calls, overtaken>>

fetcherVars == <<f_pc, f_response, f_requests, f_clock, f_wait, f_waits>>

----------------------------------------------------------------------------
(* Bounds of the model.                                                    *)

MaxBudget == 4
MaxPages == 4
PlanMaxPages == 100
PlanMaxBudget == 10
MaxEntries == 7
MaxFetches == 4

(* Program constants.                                                      *)

STARGAZERS_PER_PAGE == 30
FRESH_DAYS == 90

----------------------------------------------------------------------------
(* Results of fallible calls (anyhow::Result).                             *)

Ok(v) == [ok |-> TRUE, val |-> v]

Err(e) == [ok |-> FALSE, err |-> e]

Range(s) == {s[i] : i \in 1..Len(s)}

----------------------------------------------------------------------------
(* Dates.  A time::Date is a day number (days since 1970-01-01); the text  *)
(* "YYYY-MM-DD" is the triple of its three fixed-width numeric fields; an  *)
(* ISO-8601 timestamp is the record of its date fields and its hour.       *)

IsLeap(y) == (y % 4 = 0 /\ y % 100 # 0) \/ y % 400 = 0

DaysInMonth(y, m) ==
    IF m = 2 THEN (IF IsLeap(y) THEN 29 ELSE 28)
    ELSE IF m \in {4, 6, 9, 11} THEN 30 ELSE 31

ValidYmd(t) ==
    /\ t[1] \in 0..9999
    /\ t[2] \in 1..12
    /\ t[3] \in 1..DaysInMonth(t[1], t[2])

DaysFromCivil(y, m, d) ==
    LET yy  == IF m <= 2 THEN y - 1 ELSE y
        era == yy \div 400
        yoe == yy - era * 400
        mp  == IF m > 2 THEN m - 3 ELSE m + 9
        doy == (153 * mp + 2) \div 5 + d - 1
        doe == yoe * 365 + yoe \div 4 - yoe \div 100 + doy
    IN  era * 146097 + doe - 719468

CivilFromDays(z) ==
    LET zz  == z + 719468
        era == zz \div 146097
        doe == zz - era * 146097
        yoe == (doe - doe \div 1460 + doe \div 36524 - doe \div 146096) \div 365
        doy == doe - (365 * yoe + yoe \div 4 - yoe \div 100)
        mp  == (5 * doy + 2) \div 153
        d   == doy - (153 * mp + 2) \div 5 + 1
        m   == IF mp < 10 THEN mp + 3 ELSE mp - 9
        y   == yoe + era * 400
    IN  <<IF m <= 2 THEN y + 1 ELSE y, m, d>>

\* format_ymd: an OffsetDateTime printed as "[year]-[month]-[day]" in its own offset.
format_ymd(date) == CivilFromDays(date.date)

\* parse_ymd: "[year repr:full]-[month]-[day]" read back as a Date.
parse_ymd(date) ==
    IF ValidYmd(date) THEN Ok(DaysFromCivil(date[1], date[2], date[3]))
    ELSE Err("parse")

\* parse_iso8601: a timestamp such as 2012-01-20T18:18:21Z read as an OffsetDateTime.
parse_iso8601(date) ==
    IF ValidYmd(<<date.year, date.month, date.day>>) /\ date.hour \in 0..23
    THEN Ok([date |-> DaysFromCivil(date.year, date.month, date.day),
             hour |-> date.hour])
    ELSE Err("parse")

iso8601_to_ymd(date) ==
    LET parsed_date == parse_iso8601(date)
    IN  IF parsed_date.ok THEN Ok(format_ymd(parsed_date.val)) ELSE parsed_date

\* Order of the "YYYY-MM-DD" strings (String's Ord: byte-wise, field by field).
YmdLess(a, b) ==
    \/ a[1] < b[1]
    \/ a[1] = b[1] /\ a[2] < b[2]
    \/ a[1] = b[1] /\ a[2] = b[2] /\ a[3] < b[3]

\* derive(PartialOrd, Ord) on StarRecord: by date, then by count.
StarRecordLeq(a, b) ==
    \/ YmdLess(a.date, b.date)
    \/ a.date = b.date /\ a.count <= b.count

RECURSIVE InsertSorted(_, _)
InsertSorted(r, s) ==
    IF s = <<>> THEN <<r>>
    ELSE IF StarRecordLeq(r, Head(s)) THEN <<r>> \o s
    ELSE <<Head(s)>> \o InsertSorted(r, Tail(s))

RECURSIVE SortRecords(_)
\* Vec::sort on the records.
SortRecords(s) ==
    IF s = <<>> THEN <<>>
    ELSE InsertSorted(Head(s), SortRecords(Tail(s)))

----------------------------------------------------------------------------
(* The page planner.                                                       *)

get_request_pages(pages, max_requests_count) ==
    IF pages < max_requests_count
    THEN [i \in 1..(pages - 1) |-> i]
    ELSE LET planned == [i \in 1..max_requests_count |->
                            (i * pages) \div max_requests_count - 1]
         IN  IF 1 \in Range(planned) THEN planned ELSE <<1>> \o planned

----------------------------------------------------------------------------
(* The link header and get_page_count.  The header text is kept as the     *)
(* sequence of the pieces the pattern of get_page_count can tell apart:    *)
(* the literals "next", "last" and "&page=", single digits, and "x" for    *)
(* any other run of characters.                                            *)

DigitChars == <<"0", "1", "2", "3", "4", "5", "6", "7", "8", "9">>

IsDigit(c) == c \in Range(DigitChars)

DigitValue(c) == CHOOSE v \in 0..9 : DigitChars[v + 1] = c

RECURSIVE Digits(_)
\* The decimal text of n.
Digits(n) ==
    IF n < 10 THEN <<DigitChars[n + 1]>>
    ELSE Digits(n \div 10) \o <<DigitChars[(n % 10) + 1]>>

RECURSIVE ParseUsize(_)
\* str::parse::<usize> on a non-empty run of digits.
ParseUsize(ds) ==
    IF Len(ds) = 1 THEN DigitValue(ds[1])
    ELSE 10 * ParseUsize(SubSeq(ds, 1, Len(ds) - 1)) + DigitValue(ds[Len(ds)])

RECURSIVE DigitRun(_, _)
\* The longest run of digits of h that starts at position k (the greedy group).
DigitRun(h, k) ==
    IF k <= Len(h) /\ IsDigit(h[k]) THEN <<h[k]>> \o DigitRun(h, k + 1)
    ELSE <<>>

\* Regex::captures on the header: the match starts at a "next"; the greedy
\* wildcard runs to the last "&page=" that is still followed by a "last";
\* group 1 is the digit run after that "&page=".
LastPageCaptures(h) ==
    LET found == {b \in 1..Len(h) :
                    /\ h[b] = "&page="
                    /\ \E a \in 1..(b - 1) : h[a] = "next"
                    /\ \E c \in (b + 1)..Len(h) : h[c] = "last"}
    IN  IF found = {} THEN [matched |-> FALSE, group |-> <<>>]
        ELSE LET b == CHOOSE x \in found : \A y \in found : y <= x
             IN  [matched |-> TRUE, group |-> DigitRun(h, b + 1)]

\* get_page_count with a pattern that finds nothing treated as an error.
get_page_count_strict(response) ==
    IF ~response.link.present THEN Err("No link header found")
    ELSE LET last_page == LastPageCaptures(response.link.value)
         IN  IF last_page.matched /\ last_page.group # <<>>
             THEN Ok(ParseUsize(last_page.group))
             ELSE Err("parse")

get_page_count(response) ==
    IF ~response.link.present THEN Err("No link header found")
    ELSE LET last_page == LastPageCaptures(response.link.value)
         IN  IF last_page.matched
             THEN IF last_page.group = <<>> THEN Err("parse")
                  ELSE Ok(ParseUsize(last_page.group))
             ELSE Ok(1)

\* One entry of a link header: <https://...?per_page=30&page=N>; rel="REL".
LinkEntry(digits, rel) == <<"x", "&page=">> \o digits \o <<"x", rel>>

NoLinkHeader == [present |-> FALSE, value |-> <<>>]

LinkHeader(h) == [present |-> TRUE, value |-> h]

\* The link headers the server may send with the first page.
LinkHeaders ==
    {NoLinkHeader}
    \cup {LinkHeader(LinkEntry(Digits(2), "next") \o LinkEntry(Digits(n), "last")) :
            n \in 1..MaxPages}
    \cup {LinkHeader(LinkEntry(Digits(1), "prev") \o LinkEntry(Digits(1), "first")),
          LinkHeader(LinkEntry(Digits(MaxPages), "last") \o LinkEntry(Digits(2), "next")),
          LinkHeader(LinkEntry(Digits(2), "next") \o LinkEntry(<<>>, "last"))}

----------------------------------------------------------------------------
(* What the server may answer.                                             *)

\* OffsetDateTime::now_utc() read by Crawler::stars.
now_utc == [date |-> DaysFromCivil(2023, 3, 1), hour |-> 12]

Timestamp(day, hour) ==
    LET c == CivilFromDays(day)
    IN  [year |-> c[1], month |-> c[2], day |-> c[3], hour |-> hour]

\* starred_at values: 91, 90 and 89 days before now_utc.
Timestamps ==
    {Timestamp(now_utc.date - k, 18) :
        k \in {FRESH_DAYS + 1, FRESH_DAYS, FRESH_DAYS - 1}}

\* A starred_at value that is no ISO-8601 timestamp.
Garbage == [year |-> 2022, month |-> 13, day |-> 1, hour |-> 0]

TimestampDay(t) == DaysFromCivil(t.year, t.month, t.day)

Chronological(l) ==
    \A i, j \in 1..Len(l) : i < j => TimestampDay(l[i]) <= TimestampDay(l[j])

\* Entry lists of at most n entries, oldest first as the listing endpoint
\* returns them.
EntryLists(n) ==
    UNION {{l \in [1..k -> Timestamps] : Chronological(l)} : k \in 0..n}

JsonList(l) == [is_list |-> TRUE, entries |-> l]

JsonObject == [is_list |-> FALSE, entries |-> <<>>]

Pending == Err("pending")

\* Outcomes of Github::stargazers(None).
FirstResponses ==
    {Err("transport"),
     Ok([status |-> 404, link |-> NoLinkHeader, body |-> JsonObject])}
    \cup {Ok([status |-> 200, link |-> l, body |-> b]) :
            l \in LinkHeaders,
            b \in {JsonObject, JsonList(<<>>),
                   JsonList(<<Timestamp(now_utc.date - FRESH_DAYS, 18)>>)}}

\* Bodies of a listed page: no entry, an entry whose starred_at cannot be
\* read, or a full page of stars given on one day or on two.
PageLists ==
    {<<>>, <<Garbage>>}
    \cup {l \in {[i \in 1..STARGAZERS_PER_PAGE |->
                    IF 2 * i <= STARGAZERS_PER_PAGE THEN a ELSE b] :
                        a \in Timestamps, b \in Timestamps} :
            TimestampDay(l[1]) <= TimestampDay(l[Len(l)])}

\* Outcomes of Github::stargazers(Some(page)).
PageResponses ==
    {Err("transport"), Ok([status |-> 404, body |-> JsonObject])}
    \cup {Ok([status |-> 200, body |-> JsonList(l)]) : l \in PageLists}

\* Outcomes of Crawler::star_count for a repository whose listing has `pages`
\* pages: a failure, the total of that many full pages, or that total after
\* more stars were given in the meantime.
CountReplies(pages) ==
    {Err("transport")}
    \cup {Ok(STARGAZERS_PER_PAGE * pages), Ok(STARGAZERS_PER_PAGE * pages + 45)}

IsEntryPage(o) ==
    /\ o.ok
    /\ o.val.body.is_list
    /\ o.val.body.entries # <<>>
    /\ Garbage \notin Range(o.val.body.entries)

\* The listing is ordered by starring time, within a page and across pages.
ServedInOrder(log) ==
    \A p, q \in DOMAIN log :
        (p < q /\ IsEntryPage(log[p]) /\ IsEntryPage(log[q])) =>
            LET older == log[p].val.body.entries
                newer == log[q].val.body.entries
            IN  TimestampDay(older[Len(older)]) <= TimestampDay(newer[1])

----------------------------------------------------------------------------
(* Crawler::stars.                                                         *)

RECURSIVE CollectStars(_, _, _)
\* parse_all_star_responses, first loop: every response must be a 200 entry
\* list; the entries are concatenated in the order of the vector.
CollectStars(resps, k, acc) ==
    IF k > Len(resps) THEN Ok(acc)
    ELSE LET response == resps[k]
         IN  IF ~response.ok THEN response
             ELSE IF response.val.status # 200 THEN Err("status")
             ELSE IF ~response.val.body.is_list THEN Err("json")
             ELSE CollectStars(resps, k + 1, acc \o response.val.body.entries)

RECURSIVE SampleFrom(_, _, _, _)
SampleFrom(pages, resps, k, acc) ==
    IF k > Len(pages) \/ k > Len(resps) THEN Ok(acc)
    ELSE LET response == resps[k]
         IN  IF ~response.ok THEN SampleFrom(pages, resps, k + 1, acc)
             ELSE IF ~response.val.body.is_list THEN Err("json")
             ELSE IF response.val.body.entries = <<>>
                  THEN SampleFrom(pages, resps, k + 1, acc)
             ELSE LET starred_at == iso8601_to_ymd(response.val.body.entries[1])
                  IN  IF ~starred_at.ok THEN starred_at
                      ELSE SampleFrom(pages, resps, k + 1,
                               Append(acc, [date  |-> starred_at.val,
                                            count |-> STARGAZERS_PER_PAGE * pages[k]]))

sample_star_responses(pages, resps) == SampleFrom(pages, resps, 1, <<>>)

\* Outputs collected in the order the fetches complete.
StoreInCompletionOrder(resps, i, o) ==
    LET k == CHOOSE j \in 1..Len(resps) :
                 resps[j] = Pending /\ \A m \in 1..(j - 1) : resps[m] # Pending
    IN  [resps EXCEPT ![k] = o]

\* join_all: the output of the fetch issued at position i lands at position i.
StoreResponse(resps, i, o) == [resps EXCEPT ![i] = o]

\* The freshness test with the threshold day itself counted as stale.
add_current_stars_inclusive(records, now) ==
    IF records = <<>> THEN Ok(TRUE)
    ELSE LET last_date == parse_ymd(records[Len(records)].date)
         IN  IF ~last_date.ok THEN last_date
             ELSE Ok(now.date - last_date.val >= FRESH_DAYS)

\* The freshness test of Crawler::stars on the sorted series.
add_current_stars(records, now) ==
    IF records = <<>> THEN Ok(TRUE)
    ELSE LET last_date == parse_ymd(records[Len(records)].date)
         IN  IF ~last_date.ok THEN last_date
             ELSE Ok(now.date - last_date.val > FRESH_DAYS)

Fail ==
    /\ pc' = "done"
    /\ result' = "err"

FetcherIdle ==
    /\ f_pc = "idle"
    /\ f_response = Pending
    /\ f_requests = <<>>
    /\ f_clock = 0
    /\ f_wait = 0
    /\ f_waits = <<>>

SamplerIdle ==
    /\ first_response = Pending
    /\ page_count = 0
    /\ request_pages = <<>>
    /\ responses = <<>>
    /\ served = <<>>
    /\ stars = <<>>
    /\ index = 0
    /\ star_records = <<>>
    /\ result = "none"
    /\ count_reply = Pending
    /\ star_count_calls = 0
    /\ overtaken = FALSE

Init ==
    /\ pc = "start"
    /\ max_request_count \in 1..MaxBudget
    /\ SamplerIdle
    /\ FetcherIdle

\* The first page: status, page count, body, the empty short-circuit, the plan
\* and the fan-out of the planned fetches.
Start ==
    /\ pc = "start"
    /\ \E r \in FirstResponses :
        /\ first_response' = r
        /\ LET pages == IF r.ok /\ r.val.status = 200
                        THEN get_page_count(r.val) ELSE Err("status")
               good  == pages.ok /\ r.val.body.is_list
           IN  IF ~good
               THEN /\ Fail
                    /\ UNCHANGED <<page_count, request_pages, responses, star_records>>
               ELSE /\ page_count' = pages.val
                    /\ IF pages.val = 1 /\ r.val.body.entries = <<>>
                       THEN /\ pc' = "done"
                            /\ result' = "ok"
                            /\ star_records' = <<>>
                            /\ UNCHANGED <<request_pages, responses>>
                       ELSE /\ request_pages' =
                                  get_request_pages(pages.val, max_request_count)
                            /\ responses' = [i \in 1..Len(request_pages') |-> Pending]
                            /\ pc' = "fanout"
                            /\ UNCHANGED <<result, star_records>>
    /\ UNCHANGED <<max_request_count, served, stars, index, count_reply,
                   star_count_calls>>
    /\ UNCHANGED overtaken
    /\ UNCHANGED fetcherVars

\* One of the concurrently awaited page fetches completes.
Complete(i) ==
    /\ pc = "fanout"
    /\ request_pages[i] \notin DOMAIN served
    /\ \E o \in PageResponses :
        LET log == [p \in DOMAIN served \cup {request_pages[i]} |->
                        IF p = request_pages[i] THEN o ELSE served[p]]
        IN  /\ ServedInOrder(log)
            /\ served' = log
            /\ responses' = StoreResponse(responses, i, o)
    /\ UNCHANGED <<pc, max_request_count, first_response, page_count,
                   request_pages, stars, index, star_records, result,
                   count_reply, star_count_calls>>
    /\ overtaken' = (overtaken \/ \E j \in 1..(i - 1) :
                                     request_pages[j] \notin DOMAIN served)
    /\ UNCHANGED fetcherVars

\* join_all has returned: the series is reconstructed from the responses,
\* exhaustively (up to the walk) or by sampling (up to and including the sort).
Reconstruct ==
    /\ pc = "fanout"
    /\ \A i \in 1..Len(request_pages) : request_pages[i] \in DOMAIN served
    /\ IF Len(request_pages) < max_request_count
       THEN LET all == CollectStars(responses, 1, <<>>)
            IN  IF ~all.ok
                THEN Fail /\ UNCHANGED <<stars, index, star_records>>
                ELSE /\ stars' = all.val
                     /\ index' = 0
                     /\ star_records' = <<>>
                     /\ pc' = "walk"
                     /\ UNCHANGED result
       ELSE LET sampled == sample_star_responses(request_pages, responses)
            IN  IF ~sampled.ok
                THEN Fail /\ UNCHANGED <<stars, index, star_records>>
                ELSE /\ star_records' = SortRecords(sampled.val)
                     /\ pc' = "fresh"
                     /\ UNCHANGED <<stars, index, result>>
    /\ UNCHANGED <<max_request_count, first_response, page_count, request_pages,
                   responses, served, count_reply, star_count_calls>>
    /\ UNCHANGED overtaken
    /\ UNCHANGED fetcherVars

\* One iteration of the walk of parse_all_star_responses.
Walk ==
    /\ pc = "walk"
    /\ index < Len(stars)
    /\ Len(star_records) <= Len(stars)
    /\ LET starred_at == iso8601_to_ymd(stars[index + 1])
       IN  IF ~starred_at.ok
           THEN Fail /\ UNCHANGED <<index, star_records>>
           ELSE /\ star_records' =
                      Append(star_records,
                             [date  |-> starred_at.val,
                              count |-> STARGAZERS_PER_PAGE * index])
                /\ index' = index + Len(stars) \div max_request_count
                /\ UNCHANGED <<pc, result>>
    /\ UNCHANGED <<max_request_count, first_response, page_count, request_pages,
                   responses, served, stars, count_reply, star_count_calls>>
    /\ UNCHANGED overtaken
    /\ UNCHANGED fetcherVars

\* The walk is over: parse_all_star_responses returns and the series is sorted.
WalkExit ==
    /\ pc = "walk"
    /\ index >= Len(stars)
    /\ star_records' = SortRecords(star_records)
    /\ pc' = "fresh"
    /\ UNCHANGED <<max_request_count, first_response, page_count, request_pages,
                   responses, served, stars, index, result, count_reply,
                   star_count_calls>>
    /\ UNCHANGED overtaken
    /\ UNCHANGED fetcherVars

\* The freshness check on the sorted series.
Freshness ==
    /\ pc = "fresh"
    /\ LET add == add_current_stars(star_records, now_utc)
       IN  IF ~add.ok THEN Fail
           ELSE IF add.val THEN pc' = "count" /\ UNCHANGED result
           ELSE pc' = "done" /\ result' = "ok"
    /\ UNCHANGED <<max_request_count, first_response, page_count, request_pages,
                   responses, served, stars, index, star_records, count_reply,
                   star_count_calls>>
    /\ UNCHANGED overtaken
    /\ UNCHANGED fetcherVars

\* The aggregate endpoint answers and the record of today is appended.
StarCount ==
    /\ pc = "count"
    /\ \E reply \in CountReplies(page_count) :
        /\ count_reply' = reply
        /\ star_count_calls' = star_count_calls + 1
        /\ IF ~reply.ok
           THEN Fail /\ UNCHANGED star_records
           ELSE /\ star_records' =
                      Append(star_records,
                             [date |-> format_ymd(now_utc), count |-> reply.val])
                /\ pc' = "done"
                /\ result' = "ok"
    /\ UNCHANGED <<max_request_count, first_response, page_count, request_pages,
                   responses, served, stars, index>>
    /\ UNCHANGED overtaken
    /\ UNCHANGED fetcherVars

Next ==
    \/ Start
    \/ \E i \in 1..Len(responses) : Complete(i)
    \/ Reconstruct
    \/ Walk
    \/ WalkExit
    \/ Freshness
    \/ StarCount

Spec == Init /\ [][Next]_vars

----------------------------------------------------------------------------
(* The page planner on its own: every pair of a page count and a budget.   *)

InitPlan ==
    /\ pc = "plan"
    /\ max_request_count \in 1..PlanMaxBudget
    /\ page_count \in 1..PlanMaxPages
    /\ first_response = Pending
    /\ request_pages = <<>>
    /\ responses = <<>>
    /\ served = <<>>
    /\ stars = <<>>
    /\ index = 0
    /\ star_records = <<>>
    /\ result = "none"
    /\ count_reply = Pending
    /\ star_count_calls = 0
    /\ overtaken = FALSE
    /\ FetcherIdle

PlanPages ==
    /\ pc = "plan"
    /\ request_pages' = get_request_pages(page_count, max_request_count)
    /\ pc' = "planned"
    /\ UNCHANGED <<max_request_count, first_response, page_count, responses,
                   served, stars, index, star_records, result, count_reply,
                   star_count_calls>>
    /\ UNCHANGED overtaken
    /\ UNCHANGED fetcherVars

NextPlan == PlanPages

SpecPlan == InitPlan /\ [][NextPlan]_vars

----------------------------------------------------------------------------
(* The walk of parse_all_star_responses on its own: every concatenated     *)
(* list of 1..MaxEntries entries, every budget.                            *)

InitParse ==
    /\ pc = "walk"
    /\ max_request_count \in 1..MaxBudget
    /\ stars \in EntryLists(MaxEntries) \ {<<>>}
    /\ index = 0
    /\ first_response = Pending
    /\ page_count = 0
    /\ request_pages = <<>>
    /\ responses = <<>>
    /\ served = <<>>
    /\ star_records = <<>>
    /\ result = "none"
    /\ count_reply = Pending
    /\ star_count_calls = 0
    /\ overtaken = FALSE
    /\ FetcherIdle

NextParse ==
    \/ Walk
    \/ WalkExit

SpecParse == InitParse /\ [][NextParse]_vars

----------------------------------------------------------------------------
(* Github::handle_rate_limit.                                              *)

\* The request api_call builds; every execution sends a clone of it.
Request == [method |-> "GET", url |-> "stargazers"]

NoResetHeader ==
    [present |-> FALSE, numeric |-> FALSE, in_range |-> FALSE, value |-> 0]

\* x-ratelimit-reset headers: absent, not a number, a number that is no
\* timestamp OffsetDateTime can hold, or epoch seconds.
ResetHeaders ==
    {NoResetHeader,
     [present |-> TRUE, numeric |-> FALSE, in_range |-> FALSE, value |-> 0],
     [present |-> TRUE, numeric |-> TRUE, in_range |-> FALSE, value |-> 0]}
    \cup {[present |-> TRUE, numeric |-> TRUE, in_range |-> TRUE, value |-> v] :
            v \in {95, 100, 103}}

\* Outcomes of Client::execute.
ExecuteOutcomes ==
    {Err("transport")}
    \cup {Ok([status |-> st, reset |-> h]) :
            st \in {200, 404, 429, 403}, h \in ResetHeaders}

\* A loop condition that retries on 429 alone.
IsRateLimited429(response) == response.status = 429

\* The loop condition of handle_rate_limit.
IsRateLimited(response) == response.status = 429 \/ response.status = 403

\* The x-ratelimit-reset header read as epoch seconds.
ResetTime(response) ==
    IF ~response.reset.present THEN Err("Missing x-ratelimit-reset header")
    ELSE IF ~response.reset.numeric THEN Err("parse")
    ELSE IF ~response.reset.in_range THEN Err("range")
    ELSE Ok(response.reset.value)

Abs(n) == IF n < 0 THEN 0 - n ELSE n

\* The duration handed to tokio::time::sleep.
SleepDuration(reset, now) == Abs(reset - now)

InitFetch ==
    /\ pc = "fetch"
    /\ max_request_count = 1
    /\ SamplerIdle
    /\ f_pc = "execute"
    /\ f_response = Pending
    /\ f_requests = <<>>
    /\ f_clock = 100
    /\ f_wait = 0
    /\ f_waits = <<>>

\* client.execute(request.try_clone()): the first one and every retry.
Execute ==
    /\ f_pc = "execute"
    /\ Len(f_requests) < MaxFetches
    /\ f_requests' = Append(f_requests, Request)
    /\ \E o \in ExecuteOutcomes :
        IF ~o.ok
        THEN f_pc' = "failed" /\ UNCHANGED f_response
        ELSE f_pc' = "check" /\ f_response' = o.val
    /\ UNCHANGED <<f_clock, f_wait, f_waits>>
    /\ UNCHANGED samplerVars

\* The loop test, and the loop body up to the sleep.
Check ==
    /\ f_pc = "check"
    /\ IF ~IsRateLimited(f_response)
       THEN f_pc' = "returned" /\ UNCHANGED f_wait
       ELSE LET reset == ResetTime(f_response)
            IN  IF ~reset.ok
                THEN f_pc' = "failed" /\ UNCHANGED f_wait
                ELSE /\ f_wait' = SleepDuration(reset.val, f_clock)
                     /\ f_pc' = "sleep"
    /\ UNCHANGED <<f_response, f_requests, f_clock, f_waits>>
    /\ UNCHANGED samplerVars

\* tokio::time::sleep returns after the duration.
Sleep ==
    /\ f_pc = "sleep"
    /\ f_clock' = f_clock + f_wait
    /\ f_waits' = Append(f_waits, f_wait)
    /\ f_pc' = "execute"
    /\ UNCHANGED <<f_response, f_requests, f_wait>>
    /\ UNCHANGED samplerVars

NextFetch ==
    \/ Execute
    \/ Check
    \/ Sleep

SpecFetch == InitFetch /\ [][NextFetch]_vars

----------------------------------------------------------------------------
(* Properties.                                                             *)

SeriesReturned == pc = "done" /\ result = "ok"

SparsePlan == Len(request_pages) >= max_request_count

\* The text of the calendar day written in a timestamp.
DayText(t) == <<t.year, t.month, t.day>>

\* A response the sampler can take a record from: a fetched list with an entry.
Usable(o) == o.ok /\ o.val.body.is_list /\ o.val.body.entries # <<>>

\* C1: the returned series is sorted by (date, count) and its counts never
\* decrease as the dates increase, the appended record of today included.
C1_SeriesSortedAndMonotone ==
    SeriesReturned =>
        \A i \in 1..(Len(star_records) - 1) :
            /\ ~YmdLess(star_records[i + 1].date, star_records[i].date)
            /\ star_records[i].count <= star_records[i + 1].count

\* C2: for a page count >= 1 and a budget >= 1 the plan is not empty,
\* contains page 1, and holds distinct indices that are all >= 1.
C2_PlanNonEmptyWithPageOne ==
    pc = "planned" =>
        /\ request_pages # <<>>
        /\ 1 \in Range(request_pages)
        /\ \A i \in 1..Len(request_pages) : request_pages[i] >= 1
        /\ \A i, j \in 1..Len(request_pages) :
               i # j => request_pages[i] # request_pages[j]

\* C3: when the page count is at least the budget the plan holds exactly
\* budget-many indices, strictly increasing, the first of them 1.
C3_PlanExactlyBudget ==
    (pc = "planned" /\ page_count >= max_request_count) =>
        /\ Len(request_pages) = max_request_count
        /\ request_pages[1] = 1
        /\ \A i \in 1..(Len(request_pages) - 1) :
               request_pages[i] < request_pages[i + 1]

\* The stride the walk is said to use over n entries with budget m.
C4Stride(n, m) == IF n >= m THEN n \div m ELSE 1

\* The records the walk is said to emit: one per index 0, s, 2s, ... below n.
C4Expected ==
    LET n == Len(stars)
        s == C4Stride(n, max_request_count)
    IN  [k \in 1..((n - 1) \div s + 1) |->
            [date  |-> DayText(stars[(k - 1) * s + 1]),
             count |-> STARGAZERS_PER_PAGE * ((k - 1) * s)]]

\* C4: the walk over n >= 1 entries ends, having emitted exactly one record
\* for each index 0, s, 2s, ... below n (s = n div budget, or 1 when n is
\* below the budget), each with count entriesPerPage * index.
C4_WalkEmitsOnePerVisitedIndex ==
    /\ pc = "walk" =>
          /\ Len(star_records) <= Len(C4Expected)
          /\ \A k \in 1..Len(star_records) : star_records[k] = C4Expected[k]
    /\ pc = "fresh" => star_records = C4Expected

\* Every starred_at the planned pages answered with is a timestamp.
C5Readable ==
    \A i \in 1..Len(responses) :
        Usable(responses[i]) => Garbage \notin Range(responses[i].val.body.entries)

\* C5: in sparse sampling no planned page can abort the run, whether its
\* fetch failed or it answered something else than a 200 entry list: unless
\* the aggregate endpoint fails afterwards a series is returned, with one
\* sampled record for every planned page that answered with an entry.
C5_SparsePageErrorsNeverAbort ==
    (pc = "done" /\ request_pages # <<>> /\ SparsePlan /\ C5Readable
        /\ (count_reply = Pending \/ count_reply.ok)) =>
        /\ result = "ok"
        /\ Len(star_records) - star_count_calls =
              Cardinality({i \in 1..Len(responses) : Usable(responses[i])})

\* The last record of the series is dated more than 90 days before
\* 2023-03-01, the day of now_utc: earlier than 2022-12-01.
C6Stale ==
    \/ star_records = <<>>
    \/ YmdLess(star_records[Len(star_records)].date, <<2022, 12, 1>>)

\* C6: the sorted series gets exactly one record (today, current total)
\* appended if and only if it is empty or its last date is more than 90 days
\* before today; otherwise the aggregate endpoint is not called and the series
\* is returned as it is.
C6_FreshnessRule ==
    [][/\ pc = "fresh" =>
            /\ star_records' = star_records
            /\ star_count_calls' = star_count_calls
            /\ star_count_calls = 0
            /\ IF C6Stale THEN pc' = "count"
               ELSE pc' = "done" /\ result' = "ok"
       /\ pc = "count" =>
            /\ pc' = "done"
            /\ star_count_calls' = 1
            /\ result' = "ok" =>
                  star_records' =
                      Append(star_records,
                             [date |-> <<2023, 3, 1>>, count |-> count_reply'.val])
      ]_vars

\* A series whose last sampled date is 2022-11-30, 91 days before today, has
\* been returned with the record of today appended.
C6_Witness ==
    /\ SeriesReturned
    /\ star_count_calls = 1
    /\ Len(star_records) >= 2
    /\ star_records[Len(star_records) - 1].date = <<2022, 11, 30>>
    /\ star_records[Len(star_records)].date = <<2023, 3, 1>>
    /\ star_records[Len(star_records)].count = count_reply.val

RateLimitStatus(response) == response.status \in {429, 403}

\* C7 as stated: every 429/403 response that carries a reset header is waited
\* out and the request sent again; only a missing header makes get fail.
C7_RetriesWheneverHeaderPresent ==
    [][(f_pc = "check" /\ RateLimitStatus(f_response)
            /\ f_response.reset.present) => f_pc' = "sleep"]_vars

\* The reset header reads as epoch seconds of a representable time.
C7ValidReset(response) ==
    response.reset.present /\ response.reset.numeric /\ response.reset.in_range

\* C7, amended: get never returns a 429 or 403; a 429/403 whose reset header
\* reads as a timestamp is waited out and the identical request is sent
\* again, however many were sent before; the first response of another status
\* is returned; a 429/403 whose reset header is missing or does not read as a
\* timestamp makes get fail at once, and no further request is sent.
C7_NeverReturnsRateLimited ==
    /\ [](f_pc = "returned" => ~RateLimitStatus(f_response))
    /\ [][/\ (f_pc = "check" /\ ~RateLimitStatus(f_response)) =>
                f_pc' = "returned" /\ f_response' = f_response
          /\ (f_pc = "check" /\ RateLimitStatus(f_response)
                /\ C7ValidReset(f_response)) =>
                f_pc' = "sleep" /\ f_requests' = f_requests
          /\ f_pc = "sleep" => f_pc' = "execute"
          /\ f_pc = "execute" => f_requests' = Append(f_requests, Request)
          /\ (f_pc = "check" /\ RateLimitStatus(f_response)
                /\ ~C7ValidReset(f_response)) =>
                f_pc' = "failed" /\ f_requests' = f_requests
          /\ f_pc = "failed" => f_requests' = f_requests
         ]_vars

\* A response of another status has been returned after two rate-limited
\* ones were waited out.
C7_Witness ==
    /\ f_pc = "returned"
    /\ Len(f_requests) = 3
    /\ Len(f_waits) = 2
    /\ f_requests[3] = f_requests[1]

\* C8: each sleep lasts max(0, reset - now): nothing when the reset time is
\* not after the current time.
C8_WaitClampedAtZero ==
    f_pc = "sleep" =>
        f_wait = (IF f_response.reset.value > f_clock
                  THEN f_response.reset.value - f_clock ELSE 0)

FirstPageAccepted == first_response.ok /\ first_response.val.status = 200

\* C9 as stated: a first page whose link header is absent, or present without
\* an entry tagged "last", makes the run fail.
C9_NoLastPageIsAnError ==
    (pc # "start" /\ FirstPageAccepted
        /\ "last" \notin Range(first_response.val.link.value)) =>
        pc = "done" /\ result = "err"

\* C9, amended: an absent link header makes the run fail with no series; a
\* link header that is present but has no entry tagged "last" makes the page
\* count 1, and the run goes on as for a single page: it can still fail, but
\* only on a planned page or on the aggregate endpoint.
C9_AbsentHeaderFailsElseSinglePage ==
    (pc # "start" /\ FirstPageAccepted) =>
        /\ ~first_response.val.link.present =>
              pc = "done" /\ result = "err" /\ star_records = <<>>
        /\ (first_response.val.link.present
              /\ "last" \notin Range(first_response.val.link.value)
              /\ first_response.val.body.is_list) =>
              /\ page_count = 1
              /\ (pc = "done" /\ result = "err") =>
                    responses # <<>> \/ star_count_calls = 1

\* The run went on with page count 1 after a link header without "last", and
\* returned the record of today.
C9_Witness ==
    /\ SeriesReturned
    /\ first_response.val.link.present
    /\ "last" \notin Range(first_response.val.link.value)
    /\ page_count = 1
    /\ Len(star_records) = 1

\* The record sparse sampling takes from page p as the server answered it.
C10Record(p) ==
    [date  |-> DayText(served[p].val.body.entries[1]),
     count |-> STARGAZERS_PER_PAGE * p]

RECURSIVE C10Concat(_)
\* The entries the server answered for the planned pages, in planned order.
C10Concat(k) ==
    IF k = 0 THEN <<>>
    ELSE C10Concat(k - 1) \o served[request_pages[k]].val.body.entries

\* C10: whatever the order in which the planned fetches complete, each
\* response is used for the page that asked for it: sparse sampling emits for
\* page p the record (first day of p's own response, entriesPerPage * p), and
\* exhaustive reconstruction concatenates the entries in planned order.
C10_ResponsesPairedWithPlannedPages ==
    /\ (pc = "fresh" /\ SparsePlan /\ request_pages # <<>>) =>
          /\ Range(star_records) =
                {C10Record(p) : p \in {q \in Range(request_pages) : Usable(served[q])}}
          /\ Len(star_records) =
                Cardinality({q \in Range(request_pages) : Usable(served[q])})
    /\ (pc = "walk" /\ request_pages # <<>>) =>
          stars = C10Concat(Len(request_pages))

\* Sparse sampling has emitted records of different days after some fetch
\* completed before the fetch of a page planned ahead of it.
C10_Witness ==
    /\ pc = "fresh"
    /\ overtaken
    /\ SparsePlan
    /\ Len(star_records) >= 2
    /\ star_records[1].date # star_records[Len(star_records)].date

====
